---- MODULE Spec2Model ----
(***************************************************************************)
(* A model of the comment store adapter (CommentService), the event status *)
(* deriver (EventsService.getEventStatus) and the leaderboard updater      *)
(* (EventsService.declareWinners, updateLeaderboard) of                    *)
(* src/services/api/commentService.ts, of the useRealtimeComments hook, of *)
(* the ConnectionRequests dashboard and of the Events page with its        *)
(* EventLeaderboard.                                                       *)
(*                                                                         *)
(* Every `await` of a handler is one step of a call: calls of different    *)
(* clients interleave between steps, as they do at the remote store.       *)
(***************************************************************************)
EXTENDS Integers, Sequences, FiniteSets, TLC

\* ------------------------------------------------------------------ bounds
\* Calls started in one behaviour of the comment store with interleaved calls.
MaxCalls == 3
\* Calls started in one behaviour of the comment store with calls one at a time.
MaxSeqCalls == 5
\* Comment documents created in one behaviour (addDoc's generated ids 1..MaxComments).
MaxComments == 2

\* Winner entries in one declareWinners call.
MaxWinners == 2

\* The last calendar day of the clock and of event dates (days 0..MaxDay).
MaxDay == 2

\* Calls started in one behaviour of the comment store observed by the hooks.
MaxLiveCalls == 2

\* loadData calls of the dashboard in flight at once.
MaxLoads == 2

\* handleEventButtonClick calls of the Events page outstanding at once.
MaxFetches == 2

\* ------------------------------------------------------------ input domains
Users == {"u1", "u2"}
\* Client slots: the number of calls that can be in flight at once.
Procs == {1, 2}
ContentType == {"post", "story", "moment"}
ContentIds == {"k1"}
\* The content references calls are given: <<contentType, contentId>>.
Contents == {<<"post", "k1">>, <<"story", "k1">>}
\* The content that interleaved calls comment on.
SharedContents == {<<"post", "k1">>}
\* Id 0 stands for an id no document was ever stored under.
CommentIds == 0..MaxComments
\* Event e1 is stored; no document is stored under e0.
EventIds == {"e0", "e1"}
SubmissionIds == {"s1", "s2"}
Ranks == {1, 2}
\* Texts are sequences of characters.  The text of a new comment, and the text
\* an edit is given (with white space around it).
Texts == {<<"h", "i">>}
NewTexts == {<<" ", "o", "k", " ">>}
\* CommentData (lines 24-29): the author and the text.
CommentDatas == [userId : Users, text : Texts]

VARIABLES
  comments,   \* the 'comments' collection: comment id -> document
  contents,   \* the posts/stories/moments collections: <<collection, id>> -> document
  nextId,     \* the next id addDoc generates
  calls,      \* client slot -> the call it runs (its position and locals)
  started,    \* calls started so far
  returned,   \* the call that returned last: its operation and its outcome
  toggles,    \* history: <<comment, user>> -> the user's completed toggles
  serial,     \* history: <<comment, user>> -> the user's toggles never overlapped
  events,       \* the 'events' collection: event id -> document
  submissions,  \* the 'eventSubmissions' collection: submission id -> document
  declare,      \* the declareWinners call in flight (its position and locals)
  declareReturned, \* what the last declareWinners call returned
  update,       \* the updateLeaderboard call in flight (its position and locals)
  updateReturned, \* what the last updateLeaderboard call returned
  now,          \* the wall clock (new Date()), in minutes of local time
  shown,        \* the event getEventStatus was last asked about, and its answer
  hooks,        \* consumer -> its useRealtimeComments hook
  activeTab,    \* ConnectionRequests: the tab shown
  connections,  \* ConnectionRequests: the connections shown
  loading,      \* ConnectionRequests: the loading flag
  error,        \* ConnectionRequests: the error message shown ("": none)
  loads,        \* ConnectionRequests: tab -> loadData calls of it in flight
  selectedEvent,       \* Events page: the event selected ("": none)
  showSubmissionModal, \* Events page: the submission modal is open
  userParticipation,   \* Events page: the participation type shown ("": none)
  userSubmission,      \* Events page: the submission shown ("": none)
  fetches       \* Events page: <<event, await>> -> handlers waiting there

cvars == <<comments, contents, nextId, calls, started, returned, toggles, serial>>
evars == <<events, submissions, declare, declareReturned, update, updateReturned>>
svars == <<now, shown>>
hvars == <<hooks>>
dvars == <<activeTab, connections, loading, error, loads>>
pvars == <<selectedEvent, showSubmissionModal, userParticipation, userSubmission,
           fetches>>
vars == <<cvars, evars, svars, hvars, dvars, pvars>>

\* ------------------------------------------------------------- documents
NoComment == [exists |-> FALSE, userId |-> "", content |-> <<"", "">>,
              likes |-> {}, likesCount |-> 0, text |-> <<>>, edited |-> FALSE,
              editedAt |-> <<>>]
NoContent == [exists |-> FALSE, commentsCount |-> 0]

\* NewComment with the author counted as the first user who likes the comment.
NewCommentSelfLiked(content, commentData) ==
  [exists |-> TRUE, userId |-> commentData.userId, content |-> content,
   likes |-> {commentData.userId}, likesCount |-> 1, text |-> commentData.text,
   edited |-> FALSE, editedAt |-> <<>>]

\* The document addComment builds (lines 60-69): the comment data, the content,
\* no likes, count 0, not edited (editedAt <<>>: no such field).
NewComment(content, commentData) ==
  [exists |-> TRUE, userId |-> commentData.userId, content |-> content,
   likes |-> {}, likesCount |-> 0, text |-> commentData.text, edited |-> FALSE,
   editedAt |-> <<>>]

\* updateCommentCount's switch (lines 248-260): the collection of a content type.
CollectionName(contentType) ==
  CASE contentType = "post" -> "posts"
    [] contentType = "story" -> "stories"
    [] contentType = "moment" -> "moments"
    [] OTHER -> ""

ContentRef(content) == <<CollectionName(content[1]), content[2]>>
ContentRefs == {ContentRef(c) : c \in Contents}

Max(a, b) == IF a >= b THEN a ELSE b

\* ------------------------------------------------------------------ calls
\* (stored is history: the content stored on the comment the call deleted.)
IdleCall == [pc |-> "idle", op |-> "", commentId |-> 0, userId |-> "",
             content |-> <<"", "">>, delta |-> 0, hasLiked |-> FALSE,
             snapCount |-> 0, text |-> <<>>, stored |-> <<"", "">>]
NoValue == [id |-> 0, comment |-> NoComment]
NoReturn == [op |-> "", result |-> "", value |-> NoValue]

\* What a call that completes normally returns: addComment returns the id
\* addDoc generated with the comment it built (lines 82-85), the others nothing.
ReturnValue(call) ==
  IF call.op = "addComment"
    THEN [id |-> call.commentId,
          comment |-> NewComment(call.content,
                                 [userId |-> call.userId, text |-> call.text])]
    ELSE NoValue

Running(p) == calls[p].pc # "idle"

\* The call of slot p returns (or throws) res: the slot is free again.
Finish(p, res) ==
  /\ calls' = [calls EXCEPT ![p] = IdleCall]
  /\ returned' = [op |-> calls[p].op, result |-> res,
                  value |-> IF res = "Ok" THEN ReturnValue(calls[p]) ELSE NoValue]

\* The call of slot p goes on to its next await.
Goto(p, call) ==
  /\ calls' = [calls EXCEPT ![p] = call]
  /\ UNCHANGED returned

\* A slot is free when its call has returned (or it never ran one); a new call
\* takes the first free slot.
Begin(p, call) ==
  /\ ~Running(p)
  /\ \A q \in Procs : ~Running(q) => p <= q
  /\ started' = started + 1
  /\ calls' = [calls EXCEPT ![p] = call]
  /\ UNCHANGED returned

\* ------------------------------------------------------------- addComment
\* addComment(contentId, contentType, commentData), lines 54-69.
AddCommentStart(p, content, commentData) ==
  /\ UNCHANGED <<evars, svars, hvars, dvars, pvars>>
  /\ nextId <= MaxComments
  /\ Begin(p, [IdleCall EXCEPT !.pc = "add_addDoc", !.op = "addComment",
                               !.content = content,
                               !.userId = commentData.userId,
                               !.text = commentData.text])
  /\ UNCHANGED <<comments, contents, nextId, toggles, serial>>

\* AddCommentAddDoc with updateCommentCount in a finally block: the counter
\* update is entered whether or not addDoc succeeded.
AddCommentAddDocThenCount(p, ok) ==
  /\ UNCHANGED <<evars, svars, hvars, dvars, pvars>>
  /\ calls[p].pc = "add_addDoc"
  /\ IF ok
       THEN /\ nextId <= MaxComments
            /\ comments' = [comments EXCEPT
                 ![nextId] = NewComment(calls[p].content,
                                        [userId |-> calls[p].userId,
                                         text |-> calls[p].text])]
            /\ nextId' = nextId + 1
            /\ Goto(p, [calls[p] EXCEPT !.pc = "cnt_getDoc",
                                        !.commentId = nextId, !.delta = 1])
       ELSE /\ Goto(p, [calls[p] EXCEPT !.pc = "cnt_getDoc", !.delta = 1])
            /\ UNCHANGED <<comments, nextId>>
  /\ UNCHANGED <<contents, started, toggles, serial>>

\* await addDoc(...), lines 72-80: on success the document exists under a fresh
\* id and updateCommentCount(contentId, contentType, 1) is entered; a failure is
\* rethrown (lines 86-89).
AddCommentAddDoc(p, ok) ==
  /\ UNCHANGED <<evars, svars, hvars, dvars, pvars>>
  /\ calls[p].pc = "add_addDoc"
  /\ IF ok
       THEN /\ nextId <= MaxComments
            /\ comments' = [comments EXCEPT
                 ![nextId] = NewComment(calls[p].content,
                                        [userId |-> calls[p].userId,
                                         text |-> calls[p].text])]
            /\ nextId' = nextId + 1
            /\ Goto(p, [calls[p] EXCEPT !.pc = "cnt_getDoc",
                                        !.commentId = nextId, !.delta = 1])
       ELSE /\ Finish(p, "RemoteError")
            /\ UNCHANGED <<comments, nextId>>
  /\ UNCHANGED <<contents, started, toggles, serial>>

\* ------------------------------------------------------ updateCommentCount
\* await getDoc(contentRef), lines 262-265: the count is read; a missing
\* document or a failed read ends the call without a write (lines 265, 275-278).
\* The caller then returns normally (lines 82-85, 121).
CountGetDoc(p, ok) ==
  /\ UNCHANGED <<evars, svars, hvars, dvars, pvars>>
  /\ calls[p].pc = "cnt_getDoc"
  /\ LET ref == ContentRef(calls[p].content) IN
     IF ok /\ contents[ref].exists
       THEN Goto(p, [calls[p] EXCEPT !.pc = "cnt_updateDoc",
                                     !.snapCount = contents[ref].commentsCount])
       ELSE Finish(p, "Ok")
  /\ UNCHANGED <<comments, contents, nextId, started, toggles, serial>>

\* NewCount without the Math.max(0, ...) of line 267.
NewCountUnclamped(currentCount, delta) == currentCount + delta

\* NewCount that counts up whatever the delta.
NewCountIgnoringDelta(currentCount, delta) == Max(0, currentCount + 1)

\* newCount = Math.max(0, currentCount + delta), line 267.
NewCount(currentCount, delta) == Max(0, currentCount + delta)

\* CountUpdateDoc with the failure of the update thrown on to the caller.
CountUpdateDocThrowing(p, ok) ==
  /\ UNCHANGED <<evars, svars, hvars, dvars, pvars>>
  /\ calls[p].pc = "cnt_updateDoc"
  /\ LET ref == ContentRef(calls[p].content) IN
     IF ok
       THEN /\ contents' = [contents EXCEPT
                 ![ref].commentsCount = NewCount(calls[p].snapCount, calls[p].delta)]
            /\ Finish(p, "Ok")
       ELSE /\ UNCHANGED contents
            /\ Finish(p, "RemoteError")
  /\ UNCHANGED <<comments, nextId, started, toggles, serial>>

\* CountUpdateDoc with an atomic increment of the stored count.
CountUpdateDocIncrement(p, ok) ==
  /\ UNCHANGED <<evars, svars, hvars, dvars, pvars>>
  /\ calls[p].pc = "cnt_updateDoc"
  /\ LET ref == ContentRef(calls[p].content) IN
     IF ok
       THEN contents' = [contents EXCEPT
              ![ref].commentsCount = Max(0, @ + calls[p].delta)]
       ELSE UNCHANGED contents
  /\ Finish(p, "Ok")
  /\ UNCHANGED <<comments, nextId, started, toggles, serial>>

\* await updateDoc(contentRef, {commentsCount: newCount}), lines 266-271: the
\* count computed from the earlier read is written; a failure is swallowed.
CountUpdateDoc(p, ok) ==
  /\ UNCHANGED <<evars, svars, hvars, dvars, pvars>>
  /\ calls[p].pc = "cnt_updateDoc"
  /\ LET ref == ContentRef(calls[p].content) IN
     IF ok
       THEN contents' = [contents EXCEPT
              ![ref].commentsCount = NewCount(calls[p].snapCount, calls[p].delta)]
       ELSE UNCHANGED contents
  /\ Finish(p, "Ok")
  /\ UNCHANGED <<comments, nextId, started, toggles, serial>>

\* ----------------------------------------------------------- deleteComment
\* The comment ids a client can name: those generated so far, and id 0.
KnownIds == {c \in CommentIds : c < nextId}

\* deleteComment(commentId, contentId, contentType, userId), lines 95-100.
DeleteCommentStart(p, c, content, user) ==
  /\ UNCHANGED <<evars, svars, hvars, dvars, pvars>>
  /\ c \in KnownIds
  /\ Begin(p, [IdleCall EXCEPT !.pc = "del_getDoc", !.op = "deleteComment",
                               !.commentId = c, !.content = content,
                               !.userId = user])
  /\ UNCHANGED <<comments, contents, nextId, toggles, serial>>

\* OwnsComment with the comparison of line 111 left out.
OwnsCommentUnchecked(commentData, userId) == TRUE

\* The ownership check of line 111.
OwnsComment(commentData, userId) == commentData.userId = userId

\* await getDoc(commentRef) and the two checks, lines 103-113.
DeleteCommentGetDoc(p, ok) ==
  /\ UNCHANGED <<evars, svars, hvars, dvars, pvars>>
  /\ calls[p].pc = "del_getDoc"
  /\ LET snap == comments[calls[p].commentId] IN
     IF ~ok THEN Finish(p, "RemoteError")
     ELSE IF ~snap.exists THEN Finish(p, "Comment not found")
     ELSE IF ~OwnsComment(snap, calls[p].userId)
       THEN Finish(p, "Unauthorized to delete this comment")
     ELSE Goto(p, [calls[p] EXCEPT !.pc = "del_deleteDoc"])
  /\ UNCHANGED <<comments, contents, nextId, started, toggles, serial>>

\* await deleteDoc(commentRef), lines 116-119: deleting succeeds whether or not
\* the document is still there; then updateCommentCount(contentId, contentType,
\* -1) is entered with the caller's contentId and contentType.
DeleteCommentDeleteDoc(p, ok) ==
  /\ UNCHANGED <<evars, svars, hvars, dvars, pvars>>
  /\ calls[p].pc = "del_deleteDoc"
  /\ LET c == calls[p].commentId IN
     IF ok
       THEN /\ comments' = [comments EXCEPT ![c] = NoComment]
            /\ toggles' = [k \in DOMAIN toggles |->
                             IF k[1] = c THEN 0 ELSE toggles[k]]
            /\ serial' = [k \in DOMAIN serial |->
                             IF k[1] = c THEN TRUE ELSE serial[k]]
            /\ Goto(p, [calls[p] EXCEPT !.pc = "cnt_getDoc", !.commentId = 0,
                                        !.userId = "", !.delta = -1,
                                        !.stored = comments[c].content])
       ELSE /\ Finish(p, "RemoteError")
            /\ UNCHANGED <<comments, toggles, serial>>
  /\ UNCHANGED <<contents, nextId, started>>

\* ------------------------------------------------------------- editComment
\* String.prototype.trim: the white space at both ends is dropped.
RECURSIVE TrimStart(_)
TrimStart(text) ==
  IF text # <<>> /\ Head(text) = " " THEN TrimStart(Tail(text)) ELSE text
RECURSIVE TrimEnd(_)
TrimEnd(text) ==
  IF text # <<>> /\ text[Len(text)] = " "
    THEN TrimEnd(SubSeq(text, 1, Len(text) - 1)) ELSE text
Trim(text) == TrimEnd(TrimStart(text))

\* editComment(commentId, newText, userId), lines 131-136.
EditCommentStart(p, c, newText, user) ==
  /\ UNCHANGED <<evars, svars, hvars, dvars, pvars>>
  /\ c \in KnownIds
  /\ Begin(p, [IdleCall EXCEPT !.pc = "edit_getDoc", !.op = "editComment",
                               !.commentId = c, !.text = newText,
                               !.userId = user])
  /\ UNCHANGED <<comments, contents, nextId, toggles, serial>>

\* await getDoc(commentRef) and the two checks, lines 137-147 (the ownership
\* check of line 145 is that of line 111).
EditCommentGetDoc(p, ok) ==
  /\ UNCHANGED <<evars, svars, hvars, dvars, pvars>>
  /\ calls[p].pc = "edit_getDoc"
  /\ LET snap == comments[calls[p].commentId] IN
     IF ~ok THEN Finish(p, "RemoteError")
     ELSE IF ~snap.exists THEN Finish(p, "Comment not found")
     ELSE IF ~OwnsComment(snap, calls[p].userId)
       THEN Finish(p, "Unauthorized to edit this comment")
     ELSE Goto(p, [calls[p] EXCEPT !.pc = "edit_updateDoc"])
  /\ UNCHANGED <<comments, contents, nextId, started, toggles, serial>>

\* EditedComment that stores the text as it was given.
EditedCommentUntrimmed(doc, newText, at) ==
  [doc EXCEPT !.text = newText, !.edited = TRUE, !.editedAt = <<at>>]

\* The fields updateDoc writes, lines 150-154; at is the time of the call.
EditedComment(doc, newText, at) ==
  [doc EXCEPT !.text = Trim(newText), !.edited = TRUE, !.editedAt = <<at>>]

\* await updateDoc(commentRef, ...), lines 150-156: updating a document that
\* was deleted meanwhile fails; a failure is rethrown (lines 157-160).
EditCommentUpdateDoc(p, ok) ==
  /\ UNCHANGED <<evars, svars, hvars, dvars, pvars>>
  /\ calls[p].pc = "edit_updateDoc"
  /\ LET c == calls[p].commentId IN
     IF ok /\ comments[c].exists
       THEN /\ comments' = [comments EXCEPT ![c] =
                 EditedComment(@, calls[p].text, now)]
            /\ Finish(p, "Ok")
       ELSE /\ Finish(p, "RemoteError")
            /\ UNCHANGED comments
  /\ UNCHANGED <<contents, nextId, started, toggles, serial>>

\* ------------------------------------------------------- toggleCommentLike
\* Another toggle of the same user on the same comment is in flight.
OwnToggleInFlight(c, user) ==
  \E q \in Procs : /\ calls[q].op = "toggleCommentLike"
                   /\ calls[q].commentId = c
                   /\ calls[q].userId = user

\* toggleCommentLike(commentId, userId), lines 166-169.  The history records
\* whether the user's toggles of this comment ran one after the other.
ToggleCommentLikeStart(p, c, user) ==
  /\ UNCHANGED <<evars, svars, hvars, dvars, pvars>>
  /\ c \in KnownIds
  /\ IF comments[c].exists /\ OwnToggleInFlight(c, user)
       THEN /\ serial' = [serial EXCEPT ![<<c, user>>] = FALSE]
            /\ toggles' = [toggles EXCEPT ![<<c, user>>] = 0]
       ELSE UNCHANGED <<serial, toggles>>
  /\ Begin(p, [IdleCall EXCEPT !.pc = "tog_getDoc", !.op = "toggleCommentLike",
                               !.commentId = c, !.userId = user])
  /\ UNCHANGED <<comments, contents, nextId>>

\* ToggleCommentLikeGetDoc without the existence check of lines 174-176.
ToggleCommentLikeGetDocUnchecked(p, ok) ==
  /\ UNCHANGED <<evars, svars, hvars, dvars, pvars>>
  /\ calls[p].pc = "tog_getDoc"
  /\ LET snap == comments[calls[p].commentId] IN
     IF ~ok THEN Finish(p, "RemoteError")
     ELSE Goto(p, [calls[p] EXCEPT !.pc = "tog_updateDoc",
                                   !.hasLiked = calls[p].userId \in snap.likes,
                                   !.snapCount = snap.likesCount])
  /\ UNCHANGED <<comments, contents, nextId, started, toggles, serial>>

\* await getDoc(commentRef), lines 171-180: hasLiked and likesCount are read.
ToggleCommentLikeGetDoc(p, ok) ==
  /\ UNCHANGED <<evars, svars, hvars, dvars, pvars>>
  /\ calls[p].pc = "tog_getDoc"
  /\ LET snap == comments[calls[p].commentId] IN
     IF ~ok THEN Finish(p, "RemoteError")
     ELSE IF ~snap.exists THEN Finish(p, "Comment not found")
     ELSE Goto(p, [calls[p] EXCEPT !.pc = "tog_updateDoc",
                                   !.hasLiked = calls[p].userId \in snap.likes,
                                   !.snapCount = snap.likesCount])
  /\ UNCHANGED <<comments, contents, nextId, started, toggles, serial>>

\* ToggledComment with the like branch taken whatever was read.
ToggledCommentAlwaysLikes(doc, userId, hasLiked, snapCount) ==
  [doc EXCEPT !.likes = @ \cup {userId}, !.likesCount = snapCount + 1]

\* The fields updateDoc writes, lines 182-196: arrayRemove / arrayUnion act on
\* the stored array, likesCount is computed from the earlier read.
ToggledComment(doc, userId, hasLiked, snapCount) ==
  IF hasLiked
    THEN [doc EXCEPT !.likes = @ \ {userId},
                     !.likesCount = Max(0, snapCount - 1)]
    ELSE [doc EXCEPT !.likes = @ \cup {userId},
                     !.likesCount = snapCount + 1]

\* await updateDoc(commentRef, ...), lines 184-194: updating a document that
\* was deleted meanwhile fails; a failure is rethrown (lines 197-200).
ToggleCommentLikeUpdateDoc(p, ok) ==
  /\ UNCHANGED <<evars, svars, hvars, dvars, pvars>>
  /\ calls[p].pc = "tog_updateDoc"
  /\ LET c == calls[p].commentId
         u == calls[p].userId IN
     IF ok /\ comments[c].exists
       THEN /\ comments' = [comments EXCEPT ![c] =
                 ToggledComment(@, u, calls[p].hasLiked, calls[p].snapCount)]
            /\ toggles' = [toggles EXCEPT ![<<c, u>>] =
                             IF serial[<<c, u>>] THEN @ + 1 ELSE 0]
            /\ Finish(p, "Ok")
       ELSE /\ Finish(p, "RemoteError")
            /\ UNCHANGED <<comments, toggles>>
  /\ UNCHANGED <<contents, nextId, started, serial>>

\* ------------------------------------------------- events and submissions
\* (winnersAnnouncedAt and updatedAt are <<>> when the field is not set.)
NoEvent == [exists |-> FALSE, leaderboard |-> <<>>, eventState |-> "",
            announcedBy |-> "", winnersAnnouncedAt |-> <<>>, updatedAt |-> <<>>]
NoSubmission == [exists |-> FALSE, userId |-> "", userName |-> "", rank |-> 0]

\* The user who uploaded a submission (EventSubmission.userId, userName).
Submitter(s) == IF s = "s1" THEN "u1" ELSE "u2"

\* A stored submission without rank.
NewSubmission(s) ==
  [exists |-> TRUE, userId |-> Submitter(s), userName |-> Submitter(s), rank |-> 0]

\* Event e1 is stored, its winners not declared; both submissions are stored
\* without rank.
InitEventStore ==
  /\ events = [e \in EventIds |->
                 IF e = "e1" THEN [NoEvent EXCEPT !.exists = TRUE,
                                                  !.eventState = "submissions_closed"]
                 ELSE NoEvent]
  /\ submissions = [s \in SubmissionIds |-> NewSubmission(s)]

\* Event e1 with winners declared by an earlier call: s2 ranked first by u2.
InitDeclaredStore ==
  /\ events = [e \in EventIds |->
                 IF e = "e1"
                   THEN [exists |-> TRUE,
                         leaderboard |-> <<[rank |-> 1, userId |-> "u2",
                                            userName |-> "u2",
                                            submissionId |-> "s2"]>>,
                         eventState |-> "results_declared",
                         announcedBy |-> "u2",
                         winnersAnnouncedAt |-> <<0>>,
                         updatedAt |-> <<>>]
                   ELSE NoEvent]
  /\ submissions = [s \in SubmissionIds |->
                      [NewSubmission(s) EXCEPT !.rank = IF s = "s2" THEN 1 ELSE 0]]

\* WinnerEntry: submissionId, userId and rank (lines 543, 549).
WinnerEntries ==
  {[submissionId |-> s, userId |-> Submitter(s), rank |-> r] :
     s \in SubmissionIds, r \in Ranks}

\* The winners lists a call is given: every list of at most MaxWinners entries.
WinnerLists == UNION {[1..n -> WinnerEntries] : n \in 0..MaxWinners}

IdleDeclare == [pc |-> "idle", eventId |-> "", winners |-> <<>>,
                currentUserId |-> "", index |-> 0, leaderboard |-> <<>>]
NoDeclareReturn == [result |-> "", log |-> ""]

\* declareWinners returns (lines 561, 618-624, 627): the call is over.
DeclareReturn(result, log) ==
  /\ declare' = IdleDeclare
  /\ declareReturned' = [result |-> result, log |-> log]

\* declareWinners(eventId, winners, currentUserId), lines 547-553.
DeclareWinnersStart(eventId, winners, currentUserId) ==
  /\ UNCHANGED <<cvars, svars, hvars, dvars, pvars, update, updateReturned>>
  /\ declare.pc = "idle"
  /\ declareReturned = NoDeclareReturn
  /\ declare' = [IdleDeclare EXCEPT !.pc = "getEvent", !.eventId = eventId,
                                    !.winners = winners,
                                    !.currentUserId = currentUserId]
  /\ UNCHANGED <<events, submissions, declareReturned>>

\* DeclareWinnersGetEvent without the existence check of lines 559-562.
DeclareWinnersGetEventUnchecked(ok) ==
  /\ UNCHANGED <<cvars, svars, hvars, dvars, pvars, update, updateReturned>>
  /\ declare.pc = "getEvent"
  /\ IF ~ok
       THEN DeclareReturn("null", "Error declaring winners")
       ELSE /\ declare' = [declare EXCEPT
                 !.pc = IF declare.winners = <<>> THEN "commit" ELSE "getSubmission",
                 !.index = 1]
            /\ UNCHANGED declareReturned
  /\ UNCHANGED <<events, submissions>>

\* await getDoc(eventRef), lines 556-564: a missing event returns null; a
\* failed read is caught at lines 625-628 and returns null as well.
DeclareWinnersGetEvent(ok) ==
  /\ UNCHANGED <<cvars, svars, hvars, dvars, pvars, update, updateReturned>>
  /\ declare.pc = "getEvent"
  /\ IF ~ok
       THEN DeclareReturn("null", "Error declaring winners")
     ELSE IF ~events[declare.eventId].exists
       THEN DeclareReturn("null", "Event not found")
     ELSE /\ declare' = [declare EXCEPT
               !.pc = IF declare.winners = <<>> THEN "commit" ELSE "getSubmission",
               !.index = 1]
          /\ UNCHANGED declareReturned
  /\ UNCHANGED <<events, submissions>>

\* The leaderboard entry built from a winner and its submission, lines 576-583.
LeaderboardEntry(winner, submission) ==
  [rank |-> winner.rank, userId |-> winner.userId,
   userName |-> submission.userName, submissionId |-> winner.submissionId]

\* One turn of the loop of lines 569-588: await getDoc(submissionRef); a stored
\* submission adds an entry, a missing one or a failed read adds none.
DeclareWinnersGetSubmission(ok) ==
  /\ UNCHANGED <<cvars, svars, hvars, dvars, pvars, update, updateReturned>>
  /\ declare.pc = "getSubmission"
  /\ LET winner == declare.winners[declare.index]
         submission == submissions[winner.submissionId]
         last == declare.index = Len(declare.winners) IN
     declare' = [declare EXCEPT
       !.leaderboard = IF ok /\ submission.exists
                         THEN Append(@, LeaderboardEntry(winner, submission))
                         ELSE @,
       !.index = IF last THEN 0 ELSE @ + 1,
       !.pc = IF last THEN "commit" ELSE "getSubmission"]
  /\ UNCHANGED <<events, submissions, declareReturned>>

\* batch.update(eventRef, ...), lines 594-599.
DeclaredEvent(doc, leaderboard, currentUserId) ==
  [doc EXCEPT !.leaderboard = leaderboard,
              !.eventState = "results_declared",
              !.winnersAnnouncedAt = <<now>>,
              !.announcedBy = currentUserId]

\* The batch.update calls of lines 602-607, applied in order to the submissions.
RECURSIVE RankedSubmissions(_, _)
RankedSubmissions(subs, winners) ==
  IF winners = <<>> THEN subs
  ELSE RankedSubmissions(
         [subs EXCEPT ![Head(winners).submissionId].rank = Head(winners).rank],
         Tail(winners))

\* A batched write commits only if every document it updates exists.
BatchCanCommit(eventId, winners) ==
  /\ events[eventId].exists
  /\ \A i \in 1..Len(winners) : submissions[winners[i].submissionId].exists

\* DeclareWinnersCommit with one updateDoc per document instead of a batch:
\* the writes before the first one that fails stay applied.
DeclareWinnersCommitOneByOne(ok) ==
  /\ UNCHANGED <<cvars, svars, hvars, dvars, pvars, update, updateReturned>>
  /\ declare.pc = "commit"
  /\ LET e == declare.eventId
         ws == declare.winners
         stored == {i \in 1..Len(ws) : ~submissions[ws[i].submissionId].exists}
         applied == IF stored = {} THEN ws
                    ELSE SubSeq(ws, 1, (CHOOSE i \in stored :
                                          \A j \in stored : i <= j) - 1) IN
     IF ok /\ events[e].exists
       THEN /\ events' = [events EXCEPT ![e] =
                 DeclaredEvent(@, declare.leaderboard, declare.currentUserId)]
            /\ submissions' = RankedSubmissions(submissions, applied)
            /\ IF stored = {}
                 THEN DeclareReturn("event", "Winners declared successfully")
                 ELSE DeclareReturn("null", "Error declaring winners")
       ELSE /\ DeclareReturn("null", "Error declaring winners")
            /\ UNCHANGED <<events, submissions>>

\* await batch.commit(), lines 590-628: every write of the batch is applied, or
\* (a missing document, a remote failure) none is and null is returned.
DeclareWinnersCommit(ok) ==
  /\ UNCHANGED <<cvars, svars, hvars, dvars, pvars, update, updateReturned>>
  /\ declare.pc = "commit"
  /\ IF ok /\ BatchCanCommit(declare.eventId, declare.winners)
       THEN /\ events' = [events EXCEPT ![declare.eventId] =
                 DeclaredEvent(@, declare.leaderboard, declare.currentUserId)]
            /\ submissions' = RankedSubmissions(submissions, declare.winners)
            /\ DeclareReturn("event", "Winners declared successfully")
       ELSE /\ DeclareReturn("null", "Error declaring winners")
            /\ UNCHANGED <<events, submissions>>

\* --------------------------------------------------------- updateLeaderboard
\* The leaderboards a call is given: every list of at most MaxWinners entries,
\* each the entry of a winner and its submission.
LeaderboardLists ==
  {[i \in DOMAIN ws |-> LeaderboardEntry(ws[i], NewSubmission(ws[i].submissionId))] :
     ws \in WinnerLists}

IdleUpdate == [pc |-> "idle", eventId |-> "", leaderboard |-> <<>>,
               currentUserId |-> ""]

\* updateLeaderboard returns (lines 651, 681-685, 688): the call is over.
UpdateReturn(result, log) ==
  /\ update' = IdleUpdate
  /\ updateReturned' = [result |-> result, log |-> log]

\* updateLeaderboard(eventId, leaderboard, currentUserId), lines 638-646.
UpdateLeaderboardStart(eventId, leaderboard, currentUserId) ==
  /\ UNCHANGED <<cvars, svars, hvars, dvars, pvars, declare, declareReturned>>
  /\ update.pc = "idle"
  /\ updateReturned = NoDeclareReturn
  /\ update' = [IdleUpdate EXCEPT !.pc = "getEvent", !.eventId = eventId,
                                  !.leaderboard = leaderboard,
                                  !.currentUserId = currentUserId]
  /\ UNCHANGED <<events, submissions, updateReturned>>

\* await getDoc(eventRef), lines 647-654: a missing event returns null; a
\* failed read is caught at lines 686-689 and returns null as well.
UpdateLeaderboardGetEvent(ok) ==
  /\ UNCHANGED <<cvars, svars, hvars, dvars, pvars, declare, declareReturned>>
  /\ update.pc = "getEvent"
  /\ IF ~ok
       THEN UpdateReturn("null", "Error updating leaderboard")
     ELSE IF ~events[update.eventId].exists
       THEN UpdateReturn("null", "Event not found")
     ELSE /\ update' = [update EXCEPT !.pc = "commit"]
          /\ UNCHANGED updateReturned
  /\ UNCHANGED <<events, submissions>>

\* batch.update(eventRef, ...), lines 660-663.
UpdatedEvent(doc, leaderboard) ==
  [doc EXCEPT !.leaderboard = leaderboard, !.updatedAt = <<now>>]

\* await batch.commit(), lines 657-689: the event gets the leaderboard and every
\* submission of an entry gets the entry's rank (lines 666-671), or (a missing
\* document, a remote failure) nothing is written and null is returned.
UpdateLeaderboardCommit(ok) ==
  /\ UNCHANGED <<cvars, svars, hvars, dvars, pvars, declare, declareReturned>>
  /\ update.pc = "commit"
  /\ IF ok /\ BatchCanCommit(update.eventId, update.leaderboard)
       THEN /\ events' = [events EXCEPT ![update.eventId] =
                 UpdatedEvent(@, update.leaderboard)]
            /\ submissions' = RankedSubmissions(submissions, update.leaderboard)
            /\ UpdateReturn("event", "Leaderboard updated successfully")
       ELSE /\ UpdateReturn("null", "Error updating leaderboard")
            /\ UNCHANGED <<events, submissions>>

\* EventLeaderboard (EventLeaderboard.tsx lines 58-187): the place an entry is
\* shown at.  The podium shows leaderboard[0] as 1st, [1] as 2nd and [2] as 3rd
\* place, the further entries get rank = index + 4, and the rankings list gives
\* the entry at index the medal and label of that index: the place is the
\* position in the list, whatever the entry's rank field.
PlaceShown(leaderboard, j) ==
  IF j <= 3 THEN j ELSE (j - 4) + 4

\* The admin user ids of the app configuration (adminIds, line 734): u1 is an
\* admin, u2 is not.
AdminIds == {"u1"}
\* The adminIds argument: left out (<<>>) or the admin list.
AdminLists == {<<>>, <<AdminIds>>}

\* canDeclareWinners(userId, adminIds), lines 737-750: with an admin list the
\* user must be on it; without one nobody is authorized.
CanDeclareWinners(userId, adminIds) ==
  IF adminIds # <<>> THEN userId \in adminIds[1] ELSE FALSE

\* SubmissionService.deleteSubmission(submissionId), lines 820-828, by a user
\* while a declareWinners call may be in flight.
DeleteSubmission(s) ==
  /\ UNCHANGED <<cvars, svars, hvars, dvars, pvars, update, updateReturned>>
  /\ submissions[s].exists
  /\ submissions' = [submissions EXCEPT ![s] = NoSubmission]
  /\ UNCHANGED <<events, declare, declareReturned>>

\* ------------------------------------------------------------ event status
\* Times are minutes of local time since 00:00 of day 0.
MinutesPerDay == 24 * 60

\* The calendar day of an instant (toDateString, line 426).
DayOf(t) == t \div MinutesPerDay
\* Date.getHours and Date.getMinutes.
GetHours(t) == (t % MinutesPerDay) \div 60
GetMinutes(t) == t % 60
\* Date.setHours(hours): the hour field is replaced, an overflow carries into
\* the day.
SetHours(t, hours) == DayOf(t) * MinutesPerDay + hours * 60 + GetMinutes(t)
\* Date.setHours(hours, minutes, 0, 0).
SetHoursMinutes(t, hours, minutes) == DayOf(t) * MinutesPerDay + hours * 60 + minutes
\* Date.setMinutes(minutes): the minute field is replaced, an overflow carries
\* into the hour.
SetMinutes(t, minutes) == DayOf(t) * MinutesPerDay + GetHours(t) * 60 + minutes

\* new Date(event.date): event.date is a calendar day, read as 00:00 of that
\* day (line 428: "otherwise default to 00:00").
NewDate(date) == date * MinutesPerDay

\* Number(s) of a string of decimal digits.
DigitValue(c) ==
  CASE c = "0" -> 0 [] c = "1" -> 1 [] c = "2" -> 2 [] c = "3" -> 3
    [] c = "4" -> 4 [] c = "5" -> 5 [] c = "6" -> 6 [] c = "7" -> 7
    [] c = "8" -> 8 [] c = "9" -> 9
RECURSIVE Number(_)
Number(s) ==
  IF s = <<>> THEN 0
  ELSE 10 * Number(SubSeq(s, 1, Len(s) - 1)) + DigitValue(s[Len(s)])

\* startTime.split(':').map(Number), line 431: <<hours, minutes>>.
SplitStartTime(startTime) ==
  LET colon == CHOOSE i \in 1..Len(startTime) : startTime[i] = ":" IN
  <<Number(SubSeq(startTime, 1, colon - 1)),
    Number(SubSeq(startTime, colon + 1, Len(startTime)))>>

\* The default durations of line 443, in hours.
DefaultSameDayHours == 8
DefaultOtherDayHours == 2

\* isSameDay, line 426.
IsSameDay(event, t) == DayOf(NewDate(event.date)) = DayOf(t)

\* eventStartDate, lines 429-433: the date at startTime, or the date itself.
EventStartDate(event) ==
  IF event.startTime # <<>>
    THEN SetHoursMinutes(NewDate(event.date), SplitStartTime(event.startTime)[1],
                         SplitStartTime(event.startTime)[2])
    ELSE NewDate(event.date)

\* EventEndDate with the 2 hour default for every event without duration.
EventEndDateOneDefault(event, t) ==
  LET start == EventStartDate(event) IN
  IF event.duration # 0
    THEN LET hoursAdded == SetHours(start, GetHours(start) + (event.duration \div 60)) IN
         SetMinutes(hoursAdded, GetMinutes(hoursAdded) + (event.duration % 60))
    ELSE SetHours(start, GetHours(start) + DefaultOtherDayHours)

\* eventEndDate, lines 436-446.  A duration of d hours is held as the number
\* 60 * d of minutes: Math.floor(d) is duration \div 60 and (d % 1) * 60 is
\* duration % 60; an event without duration holds 0.
EventEndDate(event, t) ==
  LET start == EventStartDate(event) IN
  IF event.duration # 0
    THEN LET hoursAdded == SetHours(start, GetHours(start) + (event.duration \div 60)) IN
         SetMinutes(hoursAdded, GetMinutes(hoursAdded) + (event.duration % 60))
    ELSE SetHours(start, GetHours(start) +
                    (IF IsSameDay(event, t) THEN DefaultSameDayHours
                                            ELSE DefaultOtherDayHours))

\* EventStatus with the window closed before its end: live only while
\* now < eventEndDate.
EventStatusHalfOpen(event, t) ==
  IF NewDate(event.date) > t THEN "upcoming"
  ELSE IF IsSameDay(event, t)
    THEN IF t >= EventEndDate(event, t) THEN "completed" ELSE "live"
  ELSE IF t >= EventStartDate(event) /\ t < EventEndDate(event, t) THEN "live"
  ELSE "completed"

\* EventStatus that takes every event of an earlier day for completed.
EventStatusPastCompleted(event, t) ==
  IF NewDate(event.date) > t THEN "upcoming"
  ELSE IF IsSameDay(event, t)
    THEN IF t > EventEndDate(event, t) THEN "completed" ELSE "live"
  ELSE "completed"

\* The decision of lines 448-461, at time t.
EventStatus(event, t) ==
  IF NewDate(event.date) > t THEN "upcoming"
  ELSE IF IsSameDay(event, t)
    THEN IF t > EventEndDate(event, t) THEN "completed" ELSE "live"
  ELSE IF t >= EventStartDate(event) /\ t <= EventEndDate(event, t) THEN "live"
  ELSE "completed"

\* The times of day the clock is read at, and the events asked about.
TimesOfDay == {0, 30, 60, 600, 660, 1020, 1080, 1380}
Times == {d * MinutesPerDay + m : d \in 0..MaxDay, m \in TimesOfDay}
StartTimes == {<<>>, <<"0", "9", ":", "0", "0">>, <<"1", "0", ":", "0", "0">>,
               <<"1", "8", ":", "0", "0">>, <<"2", "3", ":", "0", "0">>}
Durations == {0, 90, 120, 150}
EventInputs == [date : 0..MaxDay, startTime : StartTimes, duration : Durations]

NotShown == [asked |-> FALSE, event |-> [date |-> 0, startTime |-> <<>>,
                                         duration |-> 0], status |-> ""]

\* getEventStatus(event), lines 420-462, called at the current time.
GetEventStatus(event) ==
  /\ shown' = [asked |-> TRUE, event |-> event, status |-> EventStatus(event, now)]
  /\ UNCHANGED <<now, cvars, evars, hvars, dvars, pvars>>

\* ------------------------------------------------- real-time comments hook
\* useRealtimeComments(contentId, contentType, {debounceMs}): the consumers of
\* the hook, all observing the same content.
Subscribers == {1, 2}
HookContent == <<"post", "k1">>

\* Updates are debounced at 300 ms.
DebounceMs == 300
\* Time passes in steps of half the debounce interval.
TickMs == DebounceMs \div 2

\* The result of the listener's query: the stored comments of the content with
\* their ids, ordered by creation time ascending.  Ids are generated in the
\* order of creation when calls run one at a time.
RECURSIVE QueryFrom(_, _)
QueryFrom(c, content) ==
  IF c > MaxComments THEN <<>>
  ELSE (IF comments[c].exists /\ comments[c].content = content
          THEN <<[id |-> c, comment |-> comments[c]]>> ELSE <<>>)
       \o QueryFrom(c + 1, content)

\* QuerySnapshot without the filter on the content.
QuerySnapshotUnfiltered(content) ==
  LET RECURSIVE All(_)
      All(c) == IF c > MaxComments THEN <<>>
                ELSE (IF comments[c].exists
                        THEN <<[id |-> c, comment |-> comments[c]]>> ELSE <<>>)
                     \o All(c + 1)
  IN All(1)

QuerySnapshot(content) == QueryFrom(1, content)

Min(a, b) == IF a <= b THEN a ELSE b

\* The listener has not fired yet: no snapshot (no document has id 0).
NoSnapshot == <<NoValue>>

\* A hook that is not mounted: no listener, no timer (timer -1), nothing shown,
\* no update within the last debounce interval.  burst counts, up to 2, the
\* firings of the listener in the burst that the timer last waited for.
IdleHook == [status |-> "unmounted", snapshot |-> NoSnapshot, timer |-> -1,
             comments |-> <<>>, sinceUpdate |-> DebounceMs, burst |-> 0]

\* The component mounts: the hook sets up its onSnapshot listener.  Consumers
\* mount in the order of their numbers.
Mount(i) ==
  /\ hooks[i].status = "unmounted"
  /\ \A j \in Subscribers : j < i => hooks[j].status # "unmounted"
  /\ hooks' = [hooks EXCEPT ![i].status = "active"]
  /\ UNCHANGED <<cvars, evars, svars, dvars, pvars>>

\* OnSnapshot without debounce: the update is due at once.
OnSnapshotImmediate(i) ==
  /\ hooks[i].status = "active"
  /\ hooks[i].snapshot # QuerySnapshot(HookContent)
  /\ hooks' = [hooks EXCEPT ![i].snapshot = QuerySnapshot(HookContent),
                            ![i].timer = 0,
                            ![i].burst = IF hooks[i].timer = -1 THEN 1
                                         ELSE Min(2, @ + 1)]
  /\ UNCHANGED <<cvars, evars, svars, dvars, pvars>>

\* The listener fires, for the first time or because the comments of the
\* content changed remotely: the hook keeps the latest snapshot and (re)starts
\* its debounce timer.
OnSnapshot(i) ==
  /\ hooks[i].status = "active"
  /\ hooks[i].snapshot # QuerySnapshot(HookContent)
  /\ hooks' = [hooks EXCEPT ![i].snapshot = QuerySnapshot(HookContent),
                            ![i].timer = DebounceMs,
                            ![i].burst = IF hooks[i].timer = -1 THEN 1
                                         ELSE Min(2, @ + 1)]
  /\ UNCHANGED <<cvars, evars, svars, dvars, pvars>>

\* The debounce timer runs out: the latest snapshot is delivered to the
\* consumer (the comments the hook returns), one update.
Flush(i) ==
  /\ hooks[i].timer = 0
  /\ hooks' = [hooks EXCEPT ![i].comments = hooks[i].snapshot,
                            ![i].timer = -1,
                            ![i].sinceUpdate = 0]
  /\ UNCHANGED <<cvars, evars, svars, dvars, pvars>>

\* Unmount that closes the listener and leaves the debounce timer running.
UnmountKeepingTimer(i) ==
  /\ hooks[i].status = "active"
  /\ hooks' = [hooks EXCEPT ![i].status = "closed"]
  /\ UNCHANGED <<cvars, evars, svars, dvars, pvars>>

\* The component unmounts: the listener is closed and the pending debounce
\* timer is cancelled.
Unmount(i) ==
  /\ hooks[i].status = "active"
  /\ hooks' = [hooks EXCEPT ![i].status = "closed", ![i].timer = -1]
  /\ UNCHANGED <<cvars, evars, svars, dvars, pvars>>

\* Time passes, unless a timer is due: every running timer and the time since
\* every hook's last update (followed up to one debounce interval) move on.
Tick ==
  /\ \A i \in Subscribers : hooks[i].timer # 0
  /\ hooks' = [i \in Subscribers |->
                 [hooks[i] EXCEPT
                    !.timer = IF @ > 0 THEN @ - TickMs ELSE @,
                    !.sinceUpdate = Min(DebounceMs, @ + TickMs)]]
  /\ UNCHANGED <<cvars, evars, svars, dvars, pvars>>

\* ------------------------------------------- the ConnectionRequests dashboard
\* The tabs of the dashboard (TabType, part_002 lines 43-50).
Tabs == {"all", "pending", "accepted", "rejected", "org_to_athlete",
         "coach_to_org"}

\* The organizationConnections collection: three connections, one of each
\* status, of both connection types, created at different times.
ConnectionDocs ==
  {[id |-> 1, status |-> "pending", connectionType |-> "org_to_athlete",
    createdAt |-> 3],
   [id |-> 2, status |-> "accepted", connectionType |-> "coach_to_org",
    createdAt |-> 2],
   [id |-> 3, status |-> "rejected", connectionType |-> "org_to_athlete",
    createdAt |-> 1]}

\* The where constraint of a tab (lines 76-86): a status, a connection type,
\* or, for 'all', none.
MatchesTab(doc, tab) ==
  CASE tab \in {"pending", "accepted", "rejected"} -> doc.status = tab
    [] tab \in {"org_to_athlete", "coach_to_org"} -> doc.connectionType = tab
    [] OTHER -> TRUE

\* orderBy('createdAt', 'desc'), line 88.
RECURSIVE OrderByCreatedAtDesc(_)
OrderByCreatedAtDesc(docs) ==
  IF docs = {} THEN <<>>
  ELSE LET latest == CHOOSE d \in docs :
                       \A other \in docs : other.createdAt <= d.createdAt IN
       <<latest>> \o OrderByCreatedAtDesc(docs \ {latest})

\* limit(100), line 89.
QueryLimit == 100
Limit(docs, n) == SubSeq(docs, 1, Min(Len(docs), n))

\* The result of the query loadData builds for a tab (lines 73-100).
QueryConnections(tab) ==
  Limit(OrderByCreatedAtDesc({d \in ConnectionDocs : MatchesTab(d, tab)}),
        QueryLimit)

\* The loadData calls in flight.
RECURSIVE InFlightOf(_, _)
InFlightOf(counts, keys) ==
  IF keys = {} THEN 0
  ELSE LET k == CHOOSE x \in keys : TRUE IN
       counts[k] + InFlightOf(counts, keys \ {k})
InFlight == InFlightOf(loads, Tabs)

\* The dashboard once mounted (lines 53-64): tab 'all', nothing shown yet, and
\* the effect's loadData for 'all' in flight.
InitDashboard ==
  /\ activeTab = "all"
  /\ connections = <<>>
  /\ loading = TRUE
  /\ error = ""
  /\ loads = [t \in Tabs |-> IF t = "all" THEN 1 ELSE 0]

\* A click on a tab: setActiveTab(tab), and for a new tab the effect of lines
\* 61-64 runs loadData, which sets the flags and issues the query of that tab
\* (lines 66-93).  (loadStats, which the effect also runs, writes only stats.)
SetActiveTab(tab) ==
  /\ UNCHANGED <<cvars, evars, svars, hvars, pvars>>
  /\ tab # activeTab
  /\ InFlight < MaxLoads
  /\ activeTab' = tab
  /\ loading' = TRUE
  /\ error' = ""
  /\ loads' = [loads EXCEPT ![tab] = @ + 1]
  /\ UNCHANGED connections

\* await getDocs(q) of a loadData call started for tab, lines 93-109: the
\* result is shown, or on a failure the error and no connection; the loading
\* flag falls.
LoadDataGetDocs(tab, ok) ==
  /\ UNCHANGED <<cvars, evars, svars, hvars, pvars>>
  /\ loads[tab] > 0
  /\ loads' = [loads EXCEPT ![tab] = @ - 1]
  /\ IF ok
       THEN /\ connections' = QueryConnections(tab)
            /\ UNCHANGED error
       ELSE /\ error' = "Failed to load connections"
            /\ connections' = <<>>
  /\ loading' = FALSE
  /\ UNCHANGED activeTab

\* ----------------------------------------------------------- the Events page
\* The events listed on the page, and the user logged in (currentUser.uid).
ListedEvents == {"e1", "e2"}
CurrentUser == "u1"

\* participationService.getParticipation(eventId, userId), called at line 329:
\* the user's participation in an event; its type is shown (line 330).
Participation(eventId, userId) ==
  [type |-> IF eventId = "e1" THEN "going" ELSE "interested"]

\* The eventSubmissions documents of the listed events: one of the user for each.
PageSubmissions ==
  {[id |-> "s1", eventId |-> "e1", userId |-> "u1"],
   [id |-> "s2", eventId |-> "e2", userId |-> "u1"]}

\* SubmissionService.getUserSubmissionForEvent(eventId, userId),
\* commentService.ts lines 865-887: the submission of the query's result, or
\* null ("") when the result is empty.
GetUserSubmissionForEvent(eventId, userId) ==
  LET found == {d \in PageSubmissions : d.eventId = eventId /\ d.userId = userId} IN
  IF found = {} THEN "" ELSE (CHOOSE d \in found : TRUE).id

\* The awaits of handleEventButtonClick (lines 329, 333).
Awaits == {"getParticipation", "getUserSubmission"}
\* The handleEventButtonClick calls that have not returned.
Outstanding == InFlightOf(fetches, ListedEvents \X Awaits)

InitPage ==
  /\ selectedEvent = ""
  /\ showSubmissionModal = FALSE
  /\ userParticipation = ""
  /\ userSubmission = ""
  /\ fetches = [k \in ListedEvents \X Awaits |-> 0]

\* handleEventButtonClick(event) up to its first await, lines 313-329, for the
\* logged-in user (a guest gets an alert and nothing changes, lines 314-322).
\* The button of an event can be clicked while the modal, whose overlay covers
\* the page (line 547), is closed.
HandleEventButtonClick(event) ==
  /\ UNCHANGED <<cvars, evars, svars, hvars, dvars>>
  /\ ~showSubmissionModal
  /\ Outstanding < MaxFetches
  /\ selectedEvent' = event
  /\ showSubmissionModal' = TRUE
  /\ fetches' = [fetches EXCEPT ![<<event, "getParticipation">>] = @ + 1]
  /\ UNCHANGED <<userParticipation, userSubmission>>

\* await getParticipation of the handler started for event, lines 329-333: the
\* type is set and the submission is asked for; a failure ends the handler
\* (lines 338-340).
HandleEventButtonClickParticipation(event, ok) ==
  /\ UNCHANGED <<cvars, evars, svars, hvars, dvars>>
  /\ fetches[<<event, "getParticipation">>] > 0
  /\ IF ok
       THEN /\ userParticipation' = Participation(event, CurrentUser).type
            /\ fetches' = [fetches EXCEPT
                 ![<<event, "getParticipation">>] = @ - 1,
                 ![<<event, "getUserSubmission">>] = @ + 1]
       ELSE /\ fetches' = [fetches EXCEPT ![<<event, "getParticipation">>] = @ - 1]
            /\ UNCHANGED userParticipation
  /\ UNCHANGED <<selectedEvent, showSubmissionModal, userSubmission>>

\* await getUserSubmissionForEvent of the handler started for event, lines
\* 333-340: the submission is set; a failure ends the handler.
HandleEventButtonClickSubmission(event, ok) ==
  /\ UNCHANGED <<cvars, evars, svars, hvars, dvars>>
  /\ fetches[<<event, "getUserSubmission">>] > 0
  /\ fetches' = [fetches EXCEPT ![<<event, "getUserSubmission">>] = @ - 1]
  /\ IF ok
       THEN userSubmission' = GetUserSubmissionForEvent(event, CurrentUser)
       ELSE UNCHANGED userSubmission
  /\ UNCHANGED <<selectedEvent, showSubmissionModal, userParticipation>>

\* handleCloseSubmissionModal, lines 344-349, by the close button or the
\* overlay of the open modal.
HandleCloseSubmissionModal ==
  /\ UNCHANGED <<cvars, evars, svars, hvars, dvars>>
  /\ showSubmissionModal
  /\ showSubmissionModal' = FALSE
  /\ selectedEvent' = ""
  /\ userParticipation' = ""
  /\ userSubmission' = ""
  /\ UNCHANGED fetches

\* ------------------------------------------------------- the comment store
\* An empty comments collection and no call in flight.
InitCalls ==
  /\ comments = [c \in CommentIds |-> NoComment]
  /\ nextId = 1
  /\ calls = [p \in Procs |-> IdleCall]
  /\ started = 0
  /\ returned = NoReturn
  /\ toggles = [k \in CommentIds \X Users |-> 0]
  /\ serial = [k \in CommentIds \X Users |-> TRUE]
  /\ declare = IdleDeclare
  /\ declareReturned = NoDeclareReturn
  /\ update = IdleUpdate
  /\ updateReturned = NoDeclareReturn
  /\ shown = NotShown
  /\ hooks = [i \in Subscribers |-> IdleHook]
  /\ InitDashboard
  /\ InitPage

ExistingContent == [exists |-> TRUE, commentsCount |-> 0]

\* The story exists with count 0; the post that the interleaved calls comment
\* on exists with count 0 or has no document.
Init ==
  /\ InitCalls
  /\ now = 0
  /\ InitEventStore
  /\ contents \in {f \in [ContentRefs -> {NoContent, ExistingContent}] :
                     f[<<"stories", "k1">>].exists}

\* The await steps of the calls in flight; any remote call may fail.
Await(p, ok) ==
  \/ AddCommentAddDoc(p, ok)
  \/ CountGetDoc(p, ok)
  \/ CountUpdateDoc(p, ok)
  \/ DeleteCommentGetDoc(p, ok)
  \/ DeleteCommentDeleteDoc(p, ok)
  \/ EditCommentGetDoc(p, ok)
  \/ EditCommentUpdateDoc(p, ok)
  \/ ToggleCommentLikeGetDoc(p, ok)
  \/ ToggleCommentLikeUpdateDoc(p, ok)

\* Calls of several clients on one content, interleaved at every await.
Next ==
  \/ \E p \in Procs, content \in SharedContents, commentData \in CommentDatas :
       /\ started < MaxCalls
       /\ AddCommentStart(p, content, commentData)
  \/ \E p \in Procs, content \in SharedContents, user \in Users, c \in CommentIds :
       /\ started < MaxCalls
       /\ DeleteCommentStart(p, c, content, user)
  \/ \E p \in Procs, user \in Users, c \in CommentIds, newText \in NewTexts :
       /\ started < MaxCalls
       /\ EditCommentStart(p, c, newText, user)
  \/ \E p \in Procs, user \in Users, c \in CommentIds :
       /\ started < MaxCalls
       /\ ToggleCommentLikeStart(p, c, user)
  \/ \E p \in Procs, ok \in BOOLEAN : Await(p, ok)

Spec == Init /\ [][Next]_vars

\* ---------------------------------------------------- calls one at a time
\* Every content document exists, with a count equal to its number of comments.
InitSeq ==
  /\ InitCalls
  /\ now = 0
  /\ InitEventStore
  /\ contents = [r \in ContentRefs |-> ExistingContent]

Quiet == \A p \in Procs : ~Running(p)

\* deleteComment is given the contentId and contentType stored on the comment.
RightContent(c, content) == comments[c].exists => comments[c].content = content

\* Calls start when no call is in flight, and no remote call fails.
NextSeq ==
  \/ \E p \in Procs, content \in Contents, commentData \in CommentDatas :
       /\ started < MaxSeqCalls /\ Quiet
       /\ AddCommentStart(p, content, commentData)
  \/ \E p \in Procs, content \in Contents, user \in Users, c \in CommentIds :
       /\ started < MaxSeqCalls /\ Quiet
       /\ RightContent(c, content)
       /\ DeleteCommentStart(p, c, content, user)
  \/ \E p \in Procs, user \in Users, c \in CommentIds, newText \in NewTexts :
       /\ started < MaxSeqCalls /\ Quiet
       /\ EditCommentStart(p, c, newText, user)
  \/ \E p \in Procs, user \in Users, c \in CommentIds :
       /\ started < MaxSeqCalls /\ Quiet
       /\ ToggleCommentLikeStart(p, c, user)
  \/ \E p \in Procs : Await(p, TRUE)

SpecSeq == InitSeq /\ [][NextSeq]_vars

\* ------------------------------------------------------- declaring winners
InitEvents ==
  /\ InitCalls
  /\ now = 0
  /\ contents = [r \in ContentRefs |-> ExistingContent]
  /\ InitEventStore \/ InitDeclaredStore

\* One declareWinners call, interleaved with deletions of submissions; any
\* remote call may fail.
NextEvents ==
  \/ \E eventId \in EventIds, winners \in WinnerLists, user \in Users :
       DeclareWinnersStart(eventId, winners, user)
  \/ \E ok \in BOOLEAN : DeclareWinnersGetEvent(ok)
  \/ \E ok \in BOOLEAN : DeclareWinnersGetSubmission(ok)
  \/ \E ok \in BOOLEAN : DeclareWinnersCommit(ok)
  \/ \E s \in SubmissionIds : DeleteSubmission(s)

SpecEvents == InitEvents /\ [][NextEvents]_vars

\* -------------------------------------------------- updating the leaderboard
\* One updateLeaderboard call, interleaved with deletions of submissions; any
\* remote call may fail.
NextLeaderboard ==
  \/ \E eventId \in EventIds, leaderboard \in LeaderboardLists, user \in Users :
       UpdateLeaderboardStart(eventId, leaderboard, user)
  \/ \E ok \in BOOLEAN : UpdateLeaderboardGetEvent(ok)
  \/ \E ok \in BOOLEAN : UpdateLeaderboardCommit(ok)
  \/ \E s \in SubmissionIds : DeleteSubmission(s)

SpecLeaderboard == InitEvents /\ [][NextLeaderboard]_vars

\* ------------------------------------------------- switching dashboard tabs
\* The user switches tabs while loads are in flight; the loads complete in any
\* order; no query fails.
NextDashboard ==
  \/ \E tab \in Tabs : SetActiveTab(tab)
  \/ \E tab \in Tabs : LoadDataGetDocs(tab, TRUE)

SpecDashboard == Init /\ [][NextDashboard]_vars

\* ---------------------------------------------------- selecting events
\* The user opens an event, closes the modal and opens another while the
\* fetches of the earlier clicks are outstanding; no fetch fails.
NextPage ==
  \/ \E event \in ListedEvents : HandleEventButtonClick(event)
  \/ \E event \in ListedEvents : HandleEventButtonClickParticipation(event, TRUE)
  \/ \E event \in ListedEvents : HandleEventButtonClickSubmission(event, TRUE)
  \/ HandleCloseSubmissionModal

SpecPage == Init /\ [][NextPage]_vars

\* ------------------------------------------------------ deriving the status
InitStatus ==
  /\ InitCalls
  /\ contents = [r \in ContentRefs |-> ExistingContent]
  /\ InitEventStore
  /\ now \in Times

\* getEventStatus is asked about any event, at the time the clock shows.
NextStatus == \E event \in EventInputs : GetEventStatus(event)

SpecStatus == InitStatus /\ [][NextStatus]_vars

\* --------------------------------------------- interleaved, without failures
\* Calls of several clients that add and delete comments of one content,
\* interleaved at every await; no remote call fails.
NextRace ==
  \/ \E p \in Procs, content \in SharedContents, commentData \in CommentDatas :
       /\ started < MaxCalls
       /\ AddCommentStart(p, content, commentData)
  \/ \E p \in Procs, content \in SharedContents, user \in Users, c \in CommentIds :
       /\ started < MaxCalls
       /\ DeleteCommentStart(p, c, content, user)
  \/ \E p \in Procs : \/ AddCommentAddDoc(p, TRUE)
                       \/ DeleteCommentGetDoc(p, TRUE)
                       \/ DeleteCommentDeleteDoc(p, TRUE)
                       \/ CountGetDoc(p, TRUE)
                       \/ CountUpdateDoc(p, TRUE)

SpecRace == InitSeq /\ [][NextRace]_vars

\* ------------------------------------- one at a time, given any content
\* Calls that add and delete comments, one at a time; deleteComment is given
\* any contentId and contentType; no remote call fails.
NextArgs ==
  \/ \E p \in Procs, content \in Contents, commentData \in CommentDatas :
       /\ started < MaxCalls /\ Quiet
       /\ AddCommentStart(p, content, commentData)
  \/ \E p \in Procs, content \in Contents, user \in Users, c \in CommentIds :
       /\ started < MaxCalls /\ Quiet
       /\ DeleteCommentStart(p, c, content, user)
  \/ \E p \in Procs : \/ AddCommentAddDoc(p, TRUE)
                       \/ DeleteCommentGetDoc(p, TRUE)
                       \/ DeleteCommentDeleteDoc(p, TRUE)
                       \/ CountGetDoc(p, TRUE)
                       \/ CountUpdateDoc(p, TRUE)

SpecArgs == InitSeq /\ [][NextArgs]_vars

\* ------------------------------------------------- overlapping deletions
\* The post holds MaxComments comments of u1, all counted; no call in flight.
InitOverlap ==
  /\ comments = [c \in CommentIds |->
                   IF c = 0 THEN NoComment
                   ELSE NewComment(<<"post", "k1">>,
                                   [userId |-> "u1", text |-> <<"h", "i">>])]
  /\ nextId = MaxComments + 1
  /\ contents = [r \in ContentRefs |->
                   IF r = ContentRef(<<"post", "k1">>)
                     THEN [ExistingContent EXCEPT !.commentsCount = MaxComments]
                     ELSE ExistingContent]
  /\ calls = [p \in Procs |-> IdleCall]
  /\ started = 0
  /\ returned = NoReturn
  /\ toggles = [k \in CommentIds \X Users |-> 0]
  /\ serial = [k \in CommentIds \X Users |-> TRUE]
  /\ declare = IdleDeclare
  /\ declareReturned = NoDeclareReturn
  /\ update = IdleUpdate
  /\ updateReturned = NoDeclareReturn
  /\ shown = NotShown
  /\ hooks = [i \in Subscribers |-> IdleHook]
  /\ InitDashboard
  /\ InitPage
  /\ now = 0
  /\ InitEventStore

\* deleteComment calls of several clients on the comments of the post, given
\* the post as content, interleaved at every await; no remote call fails.
NextOverlap ==
  \/ \E p \in Procs, content \in SharedContents, user \in Users, c \in CommentIds :
       /\ started < MaxCalls
       /\ DeleteCommentStart(p, c, content, user)
  \/ \E p \in Procs : \/ DeleteCommentGetDoc(p, TRUE)
                       \/ DeleteCommentDeleteDoc(p, TRUE)
                       \/ CountGetDoc(p, TRUE)
                       \/ CountUpdateDoc(p, TRUE)

SpecOverlap == InitOverlap /\ [][NextOverlap]_vars

\* ------------------------------------------------- observing the comments
InitRealtime ==
  /\ InitCalls
  /\ now = 0
  /\ InitEventStore
  /\ contents = [r \in ContentRefs |-> ExistingContent]

\* Comments are added and deleted by calls of one user that run one at a time
\* and do not fail, while the consumers mount, are notified, are updated and
\* unmount.
NextRealtime ==
  \/ \E p \in Procs, content \in Contents, commentData \in CommentDatas :
       /\ started < MaxLiveCalls /\ Quiet
       /\ commentData.userId = "u1"
       /\ AddCommentStart(p, content, commentData)
  \/ \E p \in Procs, c \in CommentIds :
       /\ started < MaxLiveCalls /\ Quiet
       /\ comments[c].exists
       /\ DeleteCommentStart(p, c, comments[c].content, "u1")
  \/ \E p \in Procs : \/ AddCommentAddDoc(p, TRUE)
                       \/ DeleteCommentGetDoc(p, TRUE)
                       \/ DeleteCommentDeleteDoc(p, TRUE)
                       \/ CountGetDoc(p, TRUE)
                       \/ CountUpdateDoc(p, TRUE)
  \/ \E i \in Subscribers : Mount(i)
  \/ \E i \in Subscribers : OnSnapshot(i)
  \/ \E i \in Subscribers : Flush(i)
  \/ \E i \in Subscribers : Unmount(i)
  \/ Tick

SpecRealtime == InitRealtime /\ [][NextRealtime]_vars

\* ------------------------------------------------------ comment properties
StoredIds == {c \in CommentIds : comments[c].exists}

\* C1: after n completed toggleCommentLike calls of user u on an existing
\* comment, each run to completion before u's next one started (calls of other
\* users interleave freely), u is in the likes set iff n is odd.
C1_ToggleParity ==
  \A c \in StoredIds, u \in Users :
    serial[<<c, u>>] => (u \in comments[c].likes <=> toggles[<<c, u>>] % 2 = 1)

\* C1 witness: a user has toggled a stored comment twice and is absent again.
C1_Witness ==
  \E c \in StoredIds, u \in Users :
    /\ serial[<<c, u>>]
    /\ toggles[<<c, u>>] = 2
    /\ u \notin comments[c].likes

\* C2 (as claimed): likesCount equals the number of user ids in likes, for
\* every stored comment, in every reachable state.
C2_LikesCountIsSize ==
  \A c \in StoredIds : comments[c].likesCount = Cardinality(comments[c].likes)

\* A step of the deleteComment call in slot p, taken while the stored comment
\* belongs to another user.
NonOwnerDeleteStep(p) ==
  /\ calls[p].op = "deleteComment"
  /\ calls'[p] # calls[p]
  /\ comments[calls[p].commentId].exists
  /\ comments[calls[p].commentId].userId # calls[p].userId

\* C3 (as claimed): deleteComment by a user other than the author always fails
\* with the permission error and leaves comments and counts unchanged.
C3_NonOwnerAlwaysPermissionError ==
  [][\A p \in Procs : NonOwnerDeleteStep(p) =>
        /\ returned'.op = "deleteComment"
        /\ returned'.result = "Unauthorized to delete this comment"
        /\ UNCHANGED <<comments, contents>>]_vars

\* C3 (amended): deleteComment by a user other than the author fails at its
\* first step, with the permission error or, when the read of the comment
\* itself fails, with that remote error; comments and counts are unchanged.
C3_NonOwnerDeleteFails ==
  [][\A p \in Procs : NonOwnerDeleteStep(p) =>
        /\ calls[p].pc = "del_getDoc"
        /\ calls'[p] = IdleCall
        /\ returned'.op = "deleteComment"
        /\ returned'.result \in {"Unauthorized to delete this comment",
                                 "RemoteError"}
        /\ UNCHANGED <<comments, contents>>]_vars

\* C3 witness: a delete was refused for lack of ownership, the comment is there.
C3_Witness ==
  /\ returned.op = "deleteComment"
  /\ returned.result = "Unauthorized to delete this comment"
  /\ StoredIds # {}

\* The comment documents that reference a content document.
CommentsOf(ref) == {c \in StoredIds : ContentRef(comments[c].content) = ref}

\* C4: with calls one at a time, no remote failure, every content document
\* present and deleteComment given the comment's own content, each content's
\* commentsCount is its number of comment documents whenever no call is running.
C4_CountMatchesComments ==
  Quiet => \A ref \in ContentRefs :
             contents[ref].commentsCount = Cardinality(CommentsOf(ref))

\* C4 witness: after an add and a delete have completed, one content holds a
\* comment and a count of 1 and a delete was the last call to return.
C4_Witness ==
  /\ Quiet
  /\ returned.op = "deleteComment"
  /\ returned.result = "Ok"
  /\ \E ref \in ContentRefs : /\ contents[ref].commentsCount = 1
                              /\ Cardinality(CommentsOf(ref)) = 1

\* ------------------------------------------- editComment and addComment properties
\* A step of the editComment call in slot p.
EditStep(p) == calls[p].op = "editComment" /\ calls'[p] # calls[p]

\* t is text without the white space at its two ends.
IsTrimOf(t, text) ==
  /\ t = <<>> \/ (t[1] # " " /\ t[Len(t)] # " ")
  /\ \E i \in 1..(Len(text) + 1) :
       /\ \A k \in 1..(i - 1) : text[k] = " "
       /\ \A k \in (i + Len(t))..Len(text) : text[k] = " "
       /\ i + Len(t) - 1 <= Len(text)
       /\ \A k \in 1..Len(t) : t[k] = text[i + k - 1]

\* C11: editComment applies the ownership check of deleteComment.  While the
\* stored comment belongs to another user the call fails at its first step and
\* no comment changes.  While it belongs to the caller the check lets the call
\* through to its write, and the call that succeeds leaves the comment with the
\* new text trimmed, edited = true and an editedAt timestamp, its other fields
\* as they were; the only other outcome for the owner is the error of a read
\* or write that failed remotely, which changes no comment.
C11_EditOwnership ==
  [][\A p \in Procs :
       (EditStep(p) /\ comments[calls[p].commentId].exists) =>
         LET c == calls[p].commentId IN
         IF comments[c].userId # calls[p].userId
           THEN /\ calls[p].pc = "edit_getDoc"
                /\ calls'[p] = IdleCall
                /\ returned'.op = "editComment"
                /\ returned'.result # "Ok"
                /\ UNCHANGED comments
           ELSE \/ /\ calls[p].pc = "edit_getDoc"
                   /\ calls'[p].pc = "edit_updateDoc"
                   /\ UNCHANGED comments
                \/ /\ calls'[p] = IdleCall
                   /\ returned'.op = "editComment"
                   /\ returned'.result = "RemoteError"
                   /\ UNCHANGED comments
                \/ /\ calls[p].pc = "edit_updateDoc"
                   /\ calls'[p] = IdleCall
                   /\ returned'.op = "editComment"
                   /\ returned'.result = "Ok"
                   /\ IsTrimOf(comments'[c].text, calls[p].text)
                   /\ comments'[c].edited
                   /\ comments'[c].editedAt # <<>>
                   /\ comments' = [comments EXCEPT
                        ![c] = [@ EXCEPT !.text = comments'[c].text,
                                         !.edited = TRUE,
                                         !.editedAt = comments'[c].editedAt]]]_vars

\* C11 witness: an edit by the author has succeeded: the comment carries the
\* trimmed text, the edited flag and an edit timestamp.
C11_Witness ==
  /\ returned.op = "editComment"
  /\ returned.result = "Ok"
  /\ \E c \in StoredIds : /\ comments[c].edited
                          /\ comments[c].text = <<"o", "k">>
                          /\ comments[c].editedAt # <<>>

\* A step of the addComment call in slot p.
AddStep(p) == calls[p].op = "addComment" /\ calls'[p] # calls[p]

\* The comment a call that was given content, userId and text has to create.
FreshComment(content, userId, text) ==
  [exists |-> TRUE, userId |-> userId, content |-> content, likes |-> {},
   likesCount |-> 0, text |-> text, edited |-> FALSE, editedAt |-> <<>>]

\* C12: the step of addComment that creates the comment stores, under an id
\* that held no document, a comment with no likes, likesCount 0, edited false
\* and the contentId, contentType and author the call was given; and the call
\* that returns normally returns that id with a comment of the same shape.
C12_NewCommentShape ==
  [][\A p \in Procs : AddStep(p) =>
       /\ (calls[p].pc = "add_addDoc" /\ calls'[p] # IdleCall) =>
            /\ calls'[p].commentId \in 1..MaxComments
            /\ ~comments[calls'[p].commentId].exists
            /\ comments' = [comments EXCEPT ![calls'[p].commentId] =
                 FreshComment(calls[p].content, calls[p].userId, calls[p].text)]
       /\ (calls[p].pc = "add_addDoc" /\ calls'[p] = IdleCall) =>
            /\ returned'.result # "Ok"
            /\ UNCHANGED comments
       /\ (calls[p].pc # "add_addDoc" /\ calls'[p] = IdleCall) =>
            /\ returned'.op = "addComment"
            /\ returned'.result = "Ok"
            /\ returned'.value =
                 [id |-> calls[p].commentId,
                  comment |-> FreshComment(calls[p].content, calls[p].userId,
                                           calls[p].text)]]_vars

\* C12 witness: addComment has returned a comment without likes, and the
\* document stored under the returned id is that comment.
C12_Witness ==
  /\ returned.op = "addComment"
  /\ returned.result = "Ok"
  /\ returned.value.id \in StoredIds
  /\ comments[returned.value.id] = returned.value.comment
  /\ returned.value.comment.likes = {}
  /\ returned.value.comment.likesCount = 0
  /\ ~returned.value.comment.edited

\* A step of updateCommentCount, run by the addComment or deleteComment call
\* in slot p after its own write of the comment document.
CountStep(p) ==
  /\ calls[p].pc \in {"cnt_getDoc", "cnt_updateDoc"}
  /\ calls'[p] # calls[p]

\* C13: no step of updateCommentCount surfaces a failure or touches a comment
\* document.  Whether the read of the content document or the update of its
\* commentsCount succeeds or fails, the comments collection stays as the primary
\* write left it, and the call that ends there ends normally: addComment
\* returns the comment it created, deleteComment completes.
C13_CountFailureSwallowed ==
  [][\A p \in Procs : CountStep(p) =>
       /\ UNCHANGED comments
       /\ calls[p].op \in {"addComment", "deleteComment"}
       /\ calls'[p] # IdleCall => calls'[p].pc = "cnt_updateDoc"
       /\ calls'[p] = IdleCall =>
            /\ returned'.op = calls[p].op
            /\ returned'.result = "Ok"
            /\ calls[p].op = "addComment" =>
                 /\ returned'.value.id = calls[p].commentId
                 /\ returned'.value.comment.exists]_vars

\* C13 witness: the one call started so far, an addComment on a content
\* document that exists, has returned its comment, the comment is stored, and
\* the content's commentsCount is still 0: the counter update failed.
C13_Witness ==
  /\ started = 1
  /\ returned.op = "addComment"
  /\ returned.result = "Ok"
  /\ returned.value.id \in StoredIds
  /\ \E ref \in ContentRefs :
       /\ CommentsOf(ref) = {returned.value.id}
       /\ contents[ref].exists
       /\ contents[ref].commentsCount = 0

\* The step of a deleteComment, editComment or toggleCommentLike call that
\* reads the comment document and checks it.
CheckStep(p) ==
  /\ calls[p].pc \in {"del_getDoc", "edit_getDoc", "tog_getDoc"}
  /\ calls'[p] # calls[p]

\* C15 (as claimed): the checking step writes nothing, and when the comment
\* document does not exist the call fails there with 'Comment not found'.
C15_MissingCommentNotFound ==
  [][\A p \in Procs : CheckStep(p) =>
       /\ UNCHANGED <<comments, contents>>
       /\ ~comments[calls[p].commentId].exists =>
            /\ calls'[p] = IdleCall
            /\ returned'.op = calls[p].op
            /\ returned'.result = "Comment not found"]_vars

\* C15 (amended): the checking step writes nothing; a call goes on to its write
\* only when the document exists and, for delete and edit, belongs to the
\* caller; when the document does not exist the call fails there, with
\* 'Comment not found' or, when the read itself failed, with that remote error.
C15_ChecksBeforeWrites ==
  [][\A p \in Procs : CheckStep(p) =>
       LET snap == comments[calls[p].commentId] IN
       /\ UNCHANGED <<comments, contents>>
       /\ calls'[p] # IdleCall =>
            /\ snap.exists
            /\ calls[p].op \in {"deleteComment", "editComment"} =>
                 snap.userId = calls[p].userId
       /\ ~snap.exists =>
            /\ calls'[p] = IdleCall
            /\ returned'.op = calls[p].op
            /\ returned'.result \in {"Comment not found", "RemoteError"}]_vars

\* C15 witness: a comment was created and deleted, and a later deleteComment
\* of it has failed with 'Comment not found'.
C15_Witness ==
  /\ returned.op = "deleteComment"
  /\ returned.result = "Comment not found"
  /\ nextId = 2
  /\ StoredIds = {}

\* C19: the count written by updateCommentCount is the count the call read
\* earlier plus its delta (not below 0), whatever the content document holds
\* by then: the write of a call that read before another call wrote overwrites
\* that call's count.
C19_LastCountWriteWins ==
  [][\A p \in Procs :
       (calls[p].pc = "cnt_updateDoc" /\ calls'[p] # calls[p]) =>
         LET ref == ContentRef(calls[p].content) IN
         /\ calls'[p] = IdleCall
         /\ returned'.result = "Ok"
         /\ contents' = [contents EXCEPT ![ref].commentsCount =
              IF calls[p].snapCount + calls[p].delta < 0
                THEN 0 ELSE calls[p].snapCount + calls[p].delta]]_vars

\* C19 witness: two addComment calls on the same content have completed, no
\* remote call failed, both comments are stored and commentsCount is 1.
C19_Witness ==
  /\ Quiet
  /\ started = 2
  /\ returned.op = "addComment"
  /\ returned.result = "Ok"
  /\ \E ref \in ContentRefs :
       /\ Cardinality(CommentsOf(ref)) = 2
       /\ contents[ref].exists
       /\ contents[ref].commentsCount = 1

\* A step of the primary part of the addComment or deleteComment call in slot
\* p: the creation of the document, the read with its checks, the deletion.
PrimaryStep(p) ==
  /\ calls[p].pc \in {"add_addDoc", "del_getDoc", "del_deleteDoc"}
  /\ calls'[p] # calls[p]

\* C22: no step of the primary part changes a content document; the counter
\* update is entered only by the step that created the comment document
\* (addComment) or deleted it (deleteComment); a call whose creation, existence
\* check, ownership check or deletion fails ends there with that failure; and
\* a content document changes only in the write step of the counter update.
C22_CountOnlyAfterPrimaryWrite ==
  [][\A p \in Procs :
       /\ PrimaryStep(p) =>
            /\ UNCHANGED contents
            /\ calls'[p].pc = "cnt_getDoc" =>
                 IF calls[p].op = "addComment"
                   THEN /\ ~comments[calls'[p].commentId].exists
                        /\ comments'[calls'[p].commentId].exists
                   ELSE /\ calls[p].pc = "del_deleteDoc"
                        /\ comments'[calls[p].commentId] = NoComment
            /\ calls'[p].pc \notin {"del_deleteDoc", "cnt_getDoc"} =>
                 /\ calls'[p] = IdleCall
                 /\ returned'.op = calls[p].op
                 /\ returned'.result # "Ok"
       /\ (calls'[p] # calls[p] /\ contents' # contents) =>
            calls[p].pc = "cnt_updateDoc"]_vars

\* C22 witness: after an addComment that counted its comment, a deleteComment
\* has failed with a remote error: the comment is stored and the count is 1.
C22_Witness ==
  /\ Quiet
  /\ started = 2
  /\ returned.op = "deleteComment"
  /\ returned.result = "RemoteError"
  /\ StoredIds = {1}
  /\ contents[ContentRef(comments[1].content)].commentsCount = 1

\* C23: every content document's commentsCount and every comment's likesCount
\* is at least 0 in every reachable state, whatever way addComment,
\* deleteComment and toggleCommentLike calls interleave and fail.
C23_CountsNotNegative ==
  /\ \A ref \in ContentRefs : contents[ref].commentsCount >= 0
  /\ \A c \in CommentIds : comments[c].likesCount >= 0

\* C23 witness: a deleteComment call that deleted its comment has read a
\* commentsCount of 0 (its comment was never counted) and is at its counter
\* write of 0 - 1, with the count still 0.
C23_Witness ==
  \E p \in Procs :
    /\ calls[p].op = "deleteComment"
    /\ calls[p].pc = "cnt_updateDoc"
    /\ calls[p].delta = -1
    /\ calls[p].snapCount = 0
    /\ contents[ContentRef(calls[p].content)].commentsCount = 0
    /\ StoredIds = {}
    /\ nextId = 2

\* C24 (as claimed), for a post whose commentsCount starts as the number of its
\* comments and on which only deleteComment calls run: the count is lowered at
\* most once for each deleted comment, overlapping calls included, so it never
\* falls below the number of comments still stored.
C24_OneDecrementPerDeletion ==
  \A ref \in ContentRefs :
    contents[ref].commentsCount >= Cardinality(CommentsOf(ref))

\* C25 (as claimed): a step of a deleteComment call changes no content
\* document but that of the content stored on the comment it deleted, whatever
\* contentId and contentType the call was given.
C25_CountOfOwnContentOnly ==
  [][\A p \in Procs :
       (calls[p].op = "deleteComment" /\ calls'[p] # calls[p]) =>
         \A ref \in ContentRefs :
           contents'[ref] # contents[ref] => ref = ContentRef(calls[p].stored)]_vars

\* ------------------------------------------------ real-time hook properties
\* The debounce timer of consumer i runs out and its update is delivered.
FlushStep(i) ==
  /\ hooks[i].timer = 0
  /\ hooks'[i].timer = -1
  /\ hooks'[i].status = hooks[i].status

\* C16: once a consumer has torn its subscription down, nothing is delivered
\* to it any more: its hook stays closed, has no debounce timer (the update
\* pending at teardown was cancelled), takes no snapshot of a later remote
\* change and never changes the comments it last delivered.
C16_NoUpdateAfterTeardown ==
  [][\A i \in Subscribers : hooks[i].status = "closed" =>
       /\ hooks[i].timer = -1
       /\ ~FlushStep(i)
       /\ hooks'[i].status = "closed"
       /\ hooks'[i].timer = -1
       /\ hooks'[i].snapshot = hooks[i].snapshot
       /\ hooks'[i].comments = hooks[i].comments]_vars

\* C16 witness: a consumer unmounted while an update was pending (the snapshot
\* of its last burst was never delivered), and the comments have changed
\* remotely since.
C16_Witness ==
  \E i \in Subscribers :
    /\ hooks[i].status = "closed"
    /\ hooks[i].burst > 0
    /\ hooks[i].snapshot # NoSnapshot
    /\ hooks[i].comments # hooks[i].snapshot
    /\ QuerySnapshot(HookContent) # hooks[i].snapshot

\* C17: a consumer is updated only when its debounce timer runs out, a full
\* debounce interval after the listener last fired (every firing restarts the
\* timer) and after the consumer's previous update; the update delivers the
\* latest snapshot the listener received.
C17_OneUpdatePerInterval ==
  [][\A i \in Subscribers :
       /\ hooks'[i].comments # hooks[i].comments => FlushStep(i)
       /\ hooks'[i].snapshot # hooks[i].snapshot =>
            /\ hooks'[i].timer = DebounceMs
            /\ hooks'[i].comments = hooks[i].comments
       /\ FlushStep(i) =>
            /\ hooks[i].sinceUpdate = DebounceMs
            /\ hooks[i].snapshot # NoSnapshot
            /\ hooks'[i].comments = hooks[i].snapshot
            /\ hooks'[i].snapshot = hooks[i].snapshot]_vars

\* C17 witness: the listener of a consumer fired at least twice in a burst and
\* the consumer has just been updated, once, with the latest snapshot.
C17_Witness ==
  \E i \in Subscribers :
    /\ hooks[i].status = "active"
    /\ hooks[i].burst = 2
    /\ hooks[i].timer = -1
    /\ hooks[i].sinceUpdate = 0
    /\ hooks[i].comments = hooks[i].snapshot
    /\ hooks[i].comments = QuerySnapshot(HookContent)

\* The hook of consumer i is up to date: its listener has received the current
\* comments and no update is pending.
Settled(i) ==
  /\ hooks[i].status = "active"
  /\ hooks[i].timer = -1
  /\ hooks[i].snapshot = QuerySnapshot(HookContent)

\* seq lists, once each and in the order of their creation, the stored
\* comments of content as they are stored.
IsCommentsOf(seq, content) ==
  /\ Len(seq) = Cardinality(CommentsOf(ContentRef(content)))
  /\ \A k \in 1..Len(seq) :
       /\ seq[k].id \in CommentsOf(ContentRef(content))
       /\ comments[seq[k].id].content = content
       /\ seq[k].comment = comments[seq[k].id]
  /\ \A k, l \in 1..Len(seq) : k < l => seq[k].id < seq[l].id

\* C18: every consumer whose hook is up to date (the shared mutation has
\* reached its listener and its debounce timer has run out) holds the comments
\* of the content in the order of their creation, the same sequence for both
\* consumers; and a step of one consumer's hook (mounting, a snapshot, an
\* update, teardown) leaves the other consumer's hook as it was.
C18_SameOrderedComments ==
  /\ [](\A i \in Subscribers :
          Settled(i) => IsCommentsOf(hooks[i].comments, HookContent))
  /\ [][\A i, j \in Subscribers :
          (i # j /\ (\/ hooks'[i].status # hooks[i].status
                     \/ hooks'[i].snapshot # hooks[i].snapshot
                     \/ hooks'[i].comments # hooks[i].comments)) =>
            hooks'[j] = hooks[j]]_vars

\* C18 witness: both consumers are up to date and hold the same comments of
\* the content, while a comment of another content is stored, and the other
\* consumer's update is more recent.
C18_Witness ==
  /\ Settled(1)
  /\ Settled(2)
  /\ hooks[1].comments = hooks[2].comments
  /\ Len(hooks[1].comments) >= 1
  /\ hooks[1].sinceUpdate # hooks[2].sinceUpdate
  /\ \E c \in StoredIds : comments[c].content # HookContent

\* ------------------------------------------------------ dashboard properties
\* C28 (as claimed): once every loadData call in flight has completed, the
\* connections shown are the result of the query of the active tab.
C28_ShowsActiveTab ==
  InFlight = 0 => connections = QueryConnections(activeTab)

\* ---------------------------------------------------- Events page properties
\* C29 (as claimed): once every fetch started by handleEventButtonClick has
\* settled, userParticipation and userSubmission are null when no event is
\* selected, and otherwise hold the user's participation type and submission
\* of the selected event.
C29_ShowsSelectedEvent ==
  Outstanding = 0 =>
    IF selectedEvent = ""
      THEN userParticipation = "" /\ userSubmission = ""
      ELSE /\ userParticipation = Participation(selectedEvent, CurrentUser).type
           /\ userSubmission = GetUserSubmissionForEvent(selectedEvent, CurrentUser)

\* ------------------------------------------------ declareWinners properties
\* A step of the declareWinners call in flight.
DeclareStep == declare.pc # "idle" /\ declare' # declare

\* C5: declareWinners on an eventId with no event document returns null (the
\* not-found outcome) at once and writes nothing: no event document and no
\* submission document changes, whatever the winners list.
C5_MissingEventNoWrites ==
  [][(DeclareStep /\ ~events[declare.eventId].exists) =>
        /\ declare' = IdleDeclare
        /\ declareReturned'.result = "null"
        /\ UNCHANGED <<events, submissions>>]_vars

\* C5 witness: a call found no event document and returned null; no event is
\* declared and no submission is ranked.
C5_Witness ==
  /\ declareReturned = [result |-> "null", log |-> "Event not found"]
  /\ \A e \in EventIds : events[e].exists => events[e].leaderboard = <<>>
  /\ \A s \in SubmissionIds : submissions[s].rank = 0

\* The entries of a winners list that name submission s.
Naming(winners, s) == {i \in 1..Len(winners) : winners[i].submissionId = s}

\* C6: every step of declareWinners either leaves every event and submission
\* document as it was, or applies the whole batch at once: the event carries
\* the leaderboard built by the call, eventState 'results_declared' and the
\* caller as announcedBy, and every submission named by a winner entry carries
\* that entry's rank (the last entry's, when several name it).
C6_AllOrNothing ==
  [][DeclareStep =>
        \/ UNCHANGED <<events, submissions>>
        \/ /\ declare.pc = "commit"
           /\ events' = [events EXCEPT ![declare.eventId] =
                [exists |-> TRUE,
                 leaderboard |-> declare.leaderboard,
                 eventState |-> "results_declared",
                 announcedBy |-> declare.currentUserId,
                 winnersAnnouncedAt |-> <<now>>,
                 updatedAt |-> events[declare.eventId].updatedAt]]
           /\ \A s \in SubmissionIds :
                LET named == Naming(declare.winners, s) IN
                IF named = {}
                  THEN submissions'[s] = submissions[s]
                  ELSE /\ submissions'[s].exists
                       /\ \E i \in named :
                            /\ \A j \in named : j <= i
                            /\ submissions'[s] =
                                 [submissions[s] EXCEPT
                                    !.rank = declare.winners[i].rank]]_vars

\* C6 witness: a call has committed two winners: the event is declared with a
\* two-entry leaderboard by u1 and both submissions carry a rank.
C6_Witness ==
  /\ declareReturned.result = "event"
  /\ events["e1"].eventState = "results_declared"
  /\ events["e1"].announcedBy = "u1"
  /\ Len(events["e1"].leaderboard) = 2
  /\ submissions["s1"].rank = 1
  /\ submissions["s2"].rank = 2

\* C14 (as claimed), for declareWinners: a call whose remote read or write
\* failed ends in an error outcome, one that is neither the normal result (the
\* updated event) nor the outcome of a call on a missing event (null, line 561).
C14_DeclareFailurePropagates ==
  declareReturned.log = "Error declaring winners" =>
    declareReturned.result \notin {"event", "null"}

\* C20 (as claimed): the step that completes declareWinners successfully leaves
\* the event with a leaderboard of exactly one entry per winner passed in,
\* carrying that winner's submissionId, userId and rank, each such submission
\* with the rank of its entry, eventState 'results_declared' and the caller as
\* announcedBy.
C20_LeaderboardMatchesWinners ==
  [][(DeclareStep /\ declareReturned'.result = "event") =>
       LET ws == declare.winners
           event == events'[declare.eventId]
           lb == event.leaderboard
           Match(entry, winner) == /\ entry.submissionId = winner.submissionId
                                   /\ entry.userId = winner.userId
                                   /\ entry.rank = winner.rank IN
       /\ event.exists
       /\ event.eventState = "results_declared"
       /\ event.announcedBy = declare.currentUserId
       /\ Len(lb) = Len(ws)
       /\ \A k \in 1..Len(ws) : \E j \in 1..Len(lb) : Match(lb[j], ws[k])
       /\ \A j \in 1..Len(lb) :
            /\ \E k \in 1..Len(ws) : Match(lb[j], ws[k])
            /\ submissions'[lb[j].submissionId].exists
            /\ submissions'[lb[j].submissionId].rank = lb[j].rank]_vars

\* C21 (as claimed): a step of declareWinners changes an event or a submission
\* document only when the caller is an authorized admin, one for whom
\* canDeclareWinners holds; for any other caller no such document changes.
C21_OnlyAdminsDeclare ==
  [][(DeclareStep /\ \A adminIds \in AdminLists :
                       ~CanDeclareWinners(declare.currentUserId, adminIds)) =>
       UNCHANGED <<events, submissions>>]_vars

\* C27 (as claimed): a step of a declareWinners call on an event whose
\* eventState is 'results_declared' already leaves the event's leaderboard,
\* winnersAnnouncedAt and announcedBy and every submission's rank as they were.
C27_DeclaredOnce ==
  [][(/\ DeclareStep
      /\ events[declare.eventId].exists
      /\ events[declare.eventId].eventState = "results_declared") =>
       LET before == events[declare.eventId]
           after == events'[declare.eventId] IN
       /\ after.leaderboard = before.leaderboard
       /\ after.winnersAnnouncedAt = before.winnersAnnouncedAt
       /\ after.announcedBy = before.announcedBy
       /\ \A s \in SubmissionIds : submissions'[s].rank = submissions[s].rank]_vars

\* C30 (as claimed): every stored leaderboard is ordered by rank, and
\* EventLeaderboard shows each of its entries at the place equal to the
\* entry's rank.
C30_ShownPlaceIsRank ==
  \A e \in EventIds :
    LET lb == events[e].leaderboard IN
    /\ \A i, j \in 1..Len(lb) : i < j => lb[i].rank <= lb[j].rank
    /\ \A j \in 1..Len(lb) : PlaceShown(lb, j) = lb[j].rank

\* A step of the updateLeaderboard call in flight.
UpdateStep == update.pc # "idle" /\ update' # update

\* C26 (as claimed): after the step that completes updateLeaderboard
\* successfully, a stored submission (each is one of the event) carries a rank
\* if and only if an entry of the event's leaderboard names it with that rank.
C26_RankedIffOnLeaderboard ==
  [][(UpdateStep /\ updateReturned'.result = "event") =>
       LET lb == events'[update.eventId].leaderboard IN
       \A s \in SubmissionIds :
         submissions'[s].exists =>
           (submissions'[s].rank # 0 <=>
              \E j \in 1..Len(lb) : /\ lb[j].submissionId = s
                                    /\ lb[j].rank = submissions'[s].rank)]_vars

\* ------------------------------------------------- getEventStatus properties
\* The length in minutes of the window the status is decided by: the event's
\* duration, or 8 hours for an event of the current day and 2 hours otherwise.
WindowMinutes(event, t) ==
  IF event.duration # 0 THEN event.duration
  ELSE IF IsSameDay(event, t) THEN 480 ELSE 120

\* C7: getEventStatus answers 'upcoming' exactly when the event's start (its
\* date at its startTime, or at 00:00 without one) is later than the current
\* time, an event of the current day whose startTime is still ahead included.
C7_UpcomingIffStartLater ==
  shown.asked =>
    (shown.status = "upcoming" <=> EventStartDate(shown.event) > now)

StatusTableFirstRows ==
  /\ (shown.asked /\ IsSameDay(shown.event, now) /\ shown.event.startTime # <<>>
        /\ EventStartDate(shown.event) = now - 60
        /\ shown.event.duration = 120) => shown.status = "live"
  /\ (shown.asked /\ shown.event.date = DayOf(now) + 1) =>
       shown.status = "upcoming"

\* C9 as stated: the two rows above, and an event of the day before with
\* duration 2 hours is 'completed'.
C9_StatusTable ==
  /\ StatusTableFirstRows
  /\ (shown.asked /\ shown.event.date = DayOf(now) - 1
        /\ shown.event.duration = 120) => shown.status = "completed"

\* C9: the two rows above, and an event of the day before with duration 2 hours
\* is 'completed' unless its startTime is so late that start + 2 hours is not
\* before now, when it is 'live'.
C9_StatusTableLateStart ==
  /\ StatusTableFirstRows
  /\ (shown.asked /\ shown.event.date = DayOf(now) - 1
        /\ shown.event.duration = 120) =>
       shown.status = (IF now > EventStartDate(shown.event) + 120
                         THEN "completed" ELSE "live")

\* An event of the day before with duration 2 hours that is still 'live'.
C9_Witness ==
  /\ shown.asked
  /\ shown.event.date = DayOf(now) - 1
  /\ shown.event.duration = 120
  /\ shown.status = "live"

====
